---- MODULE Spec2Model ----
(***************************************************************************)
(* Certificate list management of iloader: the Certificates page           *)
(* (src/src/pages/Certificates.tsx) in front of the backend commands       *)
(* get_certificates_cached and revoke_certificate (Spec, SpecNormalize),   *)
(* the Cleanup page (src/src/pages/Cleanup.tsx) in front of cleanup_all    *)
(* (SpecCleanup, SpecCleanupCerts), and checkForUpdates of the README      *)
(* (SpecUpdate).                                                           *)
(*                                                                         *)
(* A JavaScript string is modelled as a sequence of pieces: a remote       *)
(* message is written character by character, a fixed text of the page is  *)
(* one piece.  String.includes is containment of a contiguous subsequence. *)
(***************************************************************************)
EXTENDS Integers, Sequences, FiniteSets, TLC

\* ------------------------------------------------------------------ bounds
\* Longest certificate list the signing authority holds.
MaxCerts == 2
\* Longest raw list the map and filter are applied to on their own.
MaxRaw == 3
\* Most certificates and App IDs the authority holds when a cleanup starts.
MaxCleanupCerts == 5
MaxAppIds == 1
\* Progress events of one download, and the largest chunk.
MaxChunks == 3
MaxChunkLength == 2
\* The clock runs from 0 to MaxTime minutes.
MaxTime == 6
\* Invocations of get_certificates_cached that may be outstanding at once.
MaxInFlight == 2
\* Invocations of revoke_certificate that may be outstanding at once.
MaxPendingRevokes == 1

\* --------------------------------------------------------------- strings
Includes(s, sub) ==
  \E i \in 0..(Len(s) - Len(sub)) : SubSeq(s, i + 1, i + Len(sub)) = sub

NL == "\n"

\* The substrings that loadCertificates looks for in a failure message.
MarkMachineId == <<"m","a","c","h","i","n","e","I","d">>
MarkParse == <<"P","a","r","s","e">>
MarkMachineld == <<"m","a","c","h","i","n","e","l","d">>

\* Failure messages of the backend commands.
MsgTimeout == <<"t","i","m","e","o","u","t">>
MsgFailedMachineId ==
  <<"p","a","r","s","e",":"," ">> \o MarkMachineId
MsgParseName == <<"P","a","r","s","e","(","n","a","m","e",")">>
\* What listCertificates may fail with, and what revokeCertificate may fail with.
MsgMachineld == <<"n","o"," ">> \o MarkMachineld
ErrMsgs == {MsgTimeout, MsgFailedMachineId, MsgParseName, MsgMachineld}
RevokeErrMsgs == {MsgTimeout}

\* The fixed texts of the page, in English (the page's texts are Russian).
TxtHeader == "Apple API data parse error (machineId)."
TxtKnown == "This is a known issue caused by Apple API format changes."
TxtSolutions == "Possible solutions:"
Step1 == "1. Log out and log in again in the application"
Step2 == "2. Revoke all existing certificates and create new ones"
Step3 == "3. Check for iloader updates"
Step4 == "4. Report this problem to the developers"
TxtTech == "Technical information: "
TxtLoadFailed == "Failed to load certificates: "
TxtRevokeFailed == "Failed to revoke certificate: "
TxtErrorPrefix == "Error: "

\* ----------------------------------------------------------- certificates
\* A field the backend left out (undefined or null in JavaScript).
Undefined == "<undefined>"

Falsy(v) == v = Undefined \/ v = ""

\* JavaScript a || b on strings.
OrElse(a, b) == IF Falsy(a) THEN b ELSE a

Cert(n, c, s, mn, mi) ==
  [name |-> n, certificateId |-> c, serialNumber |-> s,
   machineName |-> mn, machineId |-> mi]

RawA == Cert("Dev A", "c1", "s1", "mac", "id1")
RawB == Cert(Undefined, "c2", "s2", Undefined, Undefined)
RawNoId == Cert("Dev C", "", "s3", "mac", "")
RawNoSerial == Cert("", "c4", Undefined, "", "id4")

\* The raw entries the signing authority may return.
RawCerts == {RawA, RawB, RawNoId, RawNoSerial}

MapCertAsIs(cert) == cert

MapCert(cert) ==
  Cert(OrElse(cert.name, "Unknown"), OrElse(cert.certificateId, ""),
       OrElse(cert.serialNumber, ""), OrElse(cert.machineName, ""),
       OrElse(cert.machineId, ""))

KeepCertAll(cert) == TRUE

KeepCert(cert) == cert.certificateId # "" /\ cert.serialNumber # ""

\* certs.map(...).filter(...)
Normalize(raw) ==
  LET mapped == [i \in 1..Len(raw) |-> MapCert(raw[i])]
  IN SelectSeq(mapped, KeepCert)

\* ----------------------------------------------------------------- state
VARIABLES
  certificates,  \* useState: the held certificate list
  loading,       \* useState: the flag that disables the Refresh button
  loadingRef,    \* useRef: the load guard
  mounted,       \* whether the mount effect has run
  loads,         \* the invocations of get_certificates_cached not yet settled
  revokes,       \* the invocations of revoke_certificate not yet settled
  toast,         \* the latest text shown by toast.promise
  lastCall,      \* the last call of loadCertificates: whether a load was in
                 \* flight, whether it awaits a fetch, whether it invoked one
  cache,         \* backend: the cached certificate list
  now,           \* backend: the clock, in minutes
  remote,        \* the signing authority's certificate list
  needFetch      \* a revoke succeeded and no remote list call was issued since

VARIABLES
  norm,          \* one application of the map and filter of loadCertificates:
                 \* the raw list received and the list computed from it
  upd,           \* one run of checkForUpdates
  cleanupLoading, \* Cleanup page, useState: loading
  result,        \* Cleanup page, useState: <<>> for null, <<r>> for a result
  cleanupToast,  \* Cleanup page: the latest text shown by toast.promise
  job,           \* the invocations of cleanup_all not yet settled
  run,           \* what the latest cleanup_all met: the sub-items and how
                 \* each attempt ended
  appIds         \* the signing authority's App IDs

certVars ==
  <<certificates, loading, loadingRef, mounted, loads, revokes, toast,
    lastCall, cache, now, remote, needFetch>>

\* The state outside the Certificates page and its backend commands.
cleanupVars == <<cleanupLoading, result, cleanupToast, job, run, appIds>>

others == <<norm, upd, cleanupVars>>

vars == <<certVars, others>>

frontend == <<certificates, loading, loadingRef, mounted, toast, lastCall>>

\* Sequences over S of length at most n.
SeqsUpTo(S, n) == UNION {[1..k -> S] : k \in 0..n}

\* The authority's lists: no certificate twice.
AuthorityLists ==
  {q \in SeqsUpTo(RawCerts, MaxCerts) :
     \A i, j \in 1..Len(q) : i # j => q[i] # q[j]}

RemoveAt(q, i) == SubSeq(q, 1, i - 1) \o SubSeq(q, i + 1, Len(q))

TTLShort == 2 * 2

\* Cache freshness window, in minutes.
TTL == 5

NoCache == [list |-> <<>>, ts |-> 0, valid |-> FALSE]

NoToast == [kind |-> "none", text |-> <<>>]

NoCall == [busy |-> FALSE, awaits |-> FALSE, issued |-> FALSE]

NoNorm == [raw |-> <<>>, out |-> <<>>, done |-> FALSE]

\* let downloaded = 0; let contentLength: number | undefined = 0;
NoUpd ==
  [pc |-> "idle", update |-> "unknown", answer |-> "unknown",
   stage |-> "none", contentLength |-> <<0>>, downloaded |-> 0,
   installed |-> FALSE, chunks |-> <<>>, calls |-> <<>>]

NoRun == [certs |-> <<>>, apps |-> <<>>, certOk |-> <<>>, appOk |-> <<>>]

CleanupIdle ==
  /\ cleanupLoading = FALSE
  /\ result = <<>>
  /\ cleanupToast = NoToast
  /\ job = <<>>
  /\ run = NoRun
  /\ appIds = <<>>

\* Nothing but the Certificates page is in use.
OthersIdle == norm = NoNorm /\ upd = NoUpd /\ CleanupIdle

CertIdle ==
  /\ certificates = <<>>
  /\ loading = FALSE
  /\ loadingRef = FALSE
  /\ mounted = FALSE
  /\ loads = <<>>
  /\ revokes = <<>>
  /\ toast = NoToast
  /\ lastCall = NoCall
  /\ cache = NoCache
  /\ now = 0
  /\ needFetch = FALSE

Init ==
  /\ certificates = <<>>
  /\ loading = FALSE
  /\ loadingRef = FALSE
  /\ mounted = FALSE
  /\ loads = <<>>
  /\ revokes = <<>>
  /\ toast = NoToast
  /\ lastCall = NoCall
  /\ cache = NoCache
  /\ now = 0
  /\ remote \in AuthorityLists
  /\ needFetch = FALSE
  /\ OthersIdle

\* ------------------------------------------------------ loadCertificates
LoadGuardOff(ref) == FALSE

\* if (loadingRef.current) return;
LoadGuard(ref) == ref

NewLoad(via) == [via |-> via, phase |-> "sent", src |-> "none", data |-> <<>>]

\* The loading text toast.promise shows for a load that starts.
LoadingToast(old) ==
  IF LoadGuard(loadingRef) THEN old ELSE [kind |-> "loading", text |-> <<>>]

\* One call of loadCertificates: it returns at the guard, or the closure starts,
\* sets the flags, invokes get_certificates_cached and awaits it.
LoadCertificates(via) ==
  /\ lastCall' = [busy |-> loadingRef,
                  awaits |-> ~LoadGuard(loadingRef),
                  issued |-> ~LoadGuard(loadingRef)]
  /\ IF LoadGuard(loadingRef)
     THEN UNCHANGED <<loads, loadingRef, loading>>
     ELSE /\ Len(loads) < MaxInFlight
          /\ loads' = Append(loads, NewLoad(via))
          /\ loadingRef' = TRUE
          /\ loading' = TRUE

\* useEffect(() => { loadCertificates(); }, [])
Mount ==
  /\ ~mounted
  /\ mounted' = TRUE
  /\ LoadCertificates("mount")
  /\ toast' = LoadingToast(toast)
  /\ UNCHANGED <<certificates, revokes, cache, now, remote, needFetch>>

\* The Refresh button, disabled while loading.
Refresh ==
  /\ mounted
  /\ ~loading
  /\ LoadCertificates("refresh")
  /\ toast' = LoadingToast(toast)
  /\ UNCHANGED <<certificates, mounted, revokes, cache, now, remote,
                 needFetch>>

\* onClick={() => revokeCertificate(cert.serialNumber)} on a row of the table:
\* invoke("revoke_certificate", { serialNumber }).
ClickRevoke(serialNumber) ==
  /\ \E i \in 1..Len(certificates) :
       certificates[i].serialNumber = serialNumber
  /\ Len(revokes) < MaxPendingRevokes
  /\ revokes' = Append(revokes,
       [serialNumber |-> serialNumber, phase |-> "sent", msg |-> <<>>])
  /\ toast' = [kind |-> "revoking", text |-> <<>>]
  /\ UNCHANGED <<certificates, loading, loadingRef, mounted, lastCall, loads,
                 cache, now, remote, needFetch>>

\* ------------------------------------------------------------- the backend
\* An entry is fresh iff now - timestamp < TTL.
IsFresh(entry, t) == entry.valid /\ t - entry.ts < TTL

SetLoad(i, rec) == [loads EXCEPT ![i] = rec]

\* get_certificates_cached: a fresh entry is returned with no network access,
\* otherwise listCertificates is called on the signing authority.
BackendGet(i) ==
  /\ loads[i].phase = "sent"
  /\ IF IsFresh(cache, now)
     THEN /\ loads' = SetLoad(i, [loads[i] EXCEPT !.phase = "resolved",
                                   !.src = "cache", !.data = cache.list])
          /\ UNCHANGED needFetch
     ELSE /\ loads' = SetLoad(i, [loads[i] EXCEPT !.phase = "fetching",
                                   !.src = "remote", !.data = remote])
          /\ needFetch' = FALSE
  /\ UNCHANGED <<frontend, revokes, cache, now, remote>>

\* listCertificates succeeds: the cache is replaced and the timestamp reset.
\* The authority answers with its list as of the call or as of the answer.
RemoteListOk(i) ==
  /\ loads[i].phase = "fetching"
  /\ \E list \in {loads[i].data, remote} :
       /\ cache' = [list |-> list, ts |-> now, valid |-> TRUE]
       /\ loads' = SetLoad(i, [loads[i] EXCEPT !.phase = "resolved",
                                !.data = list])
  /\ UNCHANGED <<frontend, revokes, now, remote, needFetch>>

\* listCertificates fails: the cache is left unchanged.
RemoteListFail(i, msg) ==
  /\ loads[i].phase = "fetching"
  /\ loads' = SetLoad(i, [loads[i] EXCEPT !.phase = "rejected", !.data = msg])
  /\ UNCHANGED <<frontend, revokes, cache, now, remote, needFetch>>

WithoutSerial(list, serialNumber) ==
  LET Other(cert) == cert.serialNumber # serialNumber
  IN SelectSeq(list, Other)

SetRevoke(k, rec) == [revokes EXCEPT ![k] = rec]

\* revoke_certificate succeeds: the authority held the certificate and drops
\* it, and the cache is invalidated.
BackendRevokeOk(k) ==
  /\ revokes[k].phase = "sent"
  /\ \E i \in 1..Len(remote) :
       remote[i].serialNumber = revokes[k].serialNumber
  /\ remote' = WithoutSerial(remote, revokes[k].serialNumber)
  /\ cache' = NoCache
  /\ needFetch' = TRUE
  /\ revokes' = SetRevoke(k, [revokes[k] EXCEPT !.phase = "ok"])
  /\ UNCHANGED <<frontend, loads, now>>

\* revoke_certificate fails: the cache is left untouched.
BackendRevokeFail(k, msg) ==
  /\ revokes[k].phase = "sent"
  /\ revokes' = SetRevoke(k, [revokes[k] EXCEPT !.phase = "err", !.msg = msg])
  /\ UNCHANGED <<frontend, loads, cache, now, remote, needFetch>>

Tick ==
  /\ now < MaxTime
  /\ now' = now + 1
  /\ UNCHANGED <<frontend, loads, revokes, cache, remote, needFetch>>

\* ------------------------------------------------- settling on the page
IsMachineIdError(errorMsg) ==
  \/ Includes(errorMsg, MarkMachineId)
  \/ Includes(errorMsg, MarkParse)
  \/ Includes(errorMsg, MarkMachineld)

DetailedErrorNoSteps(errorMsg) ==
  <<TxtHeader, NL, NL, TxtKnown, NL, NL, TxtTech>> \o errorMsg

DetailedError(errorMsg) ==
  <<TxtHeader, NL, NL, TxtKnown, NL, NL, TxtSolutions, NL, Step1, NL, Step2,
    NL, Step3, NL, Step4, NL, NL, TxtTech>> \o errorMsg

\* String(e) of what the catch block throws: new Error(detailedError), or the
\* error as it came.
ThrownString(errorMsg) ==
  IF IsMachineIdError(errorMsg)
  THEN <<TxtErrorPrefix>> \o DetailedError(errorMsg)
  ELSE errorMsg

\* The error text of toast.promise in loadCertificates.
LoadErrorText(errorStr) ==
  IF Includes(errorStr, <<NL>>) THEN errorStr
  ELSE <<TxtLoadFailed>> \o errorStr

ListOnFailureEmpty(held) == <<>>

\* The catch block calls no setCertificates.
ListOnFailure(held) == held

\* The awaited invoke resolves: map, filter, setCertificates, finally.
LoadResolve(i) ==
  /\ loads[i].phase = "resolved"
  /\ certificates' = Normalize(loads[i].data)
  /\ toast' = [kind |-> "loadOk", text |-> <<>>]
  /\ loading' = FALSE
  /\ loadingRef' = FALSE
  /\ loads' = RemoveAt(loads, i)
  /\ UNCHANGED <<mounted, lastCall, revokes, cache, now, remote, needFetch>>

\* The awaited invoke rejects: catch, rethrow, finally.
LoadReject(i) ==
  /\ loads[i].phase = "rejected"
  /\ certificates' = ListOnFailure(certificates)
  /\ toast' = [kind |-> "loadErr",
               text |-> LoadErrorText(ThrownString(loads[i].data))]
  /\ loading' = FALSE
  /\ loadingRef' = FALSE
  /\ loads' = RemoveAt(loads, i)
  /\ UNCHANGED <<mounted, lastCall, revokes, cache, now, remote, needFetch>>

\* promise.then(loadCertificates) and the success toast.
RevokeThen(k) ==
  /\ revokes[k].phase = "ok"
  /\ revokes' = RemoveAt(revokes, k)
  /\ LoadCertificates("revoke")
  /\ toast' = [kind |-> "revokeOk", text |-> <<>>]
  /\ UNCHANGED <<certificates, mounted, cache, now, remote, needFetch>>

ReloadOnRevokeFailure == TRUE

\* promise.then(loadCertificates) has no rejection handler.
ReloadOnFailure == FALSE

\* The revoke rejects: only the error toast.
RevokeCatch(k) ==
  /\ revokes[k].phase = "err"
  /\ revokes' = RemoveAt(revokes, k)
  /\ toast' = [kind |-> "revokeErr",
               text |-> <<TxtRevokeFailed>> \o revokes[k].msg]
  /\ IF ReloadOnFailure
     THEN LoadCertificates("revoke")
     ELSE UNCHANGED <<loads, loadingRef, loading, lastCall>>
  /\ UNCHANGED <<certificates, mounted, cache, now, remote, needFetch>>

Serials == {c.serialNumber : c \in RawCerts} \ {Undefined, ""}

Next ==
  /\ \/ Mount
     \/ Refresh
     \/ \E s \in Serials : ClickRevoke(s)
     \/ \E i \in 1..Len(loads) : BackendGet(i)
     \/ \E i \in 1..Len(loads) : RemoteListOk(i)
     \/ \E i \in 1..Len(loads), msg \in ErrMsgs : RemoteListFail(i, msg)
     \/ \E k \in 1..Len(revokes) : BackendRevokeOk(k)
     \/ \E k \in 1..Len(revokes), msg \in RevokeErrMsgs : BackendRevokeFail(k, msg)
     \/ \E i \in 1..Len(loads) : LoadResolve(i)
     \/ \E i \in 1..Len(loads) : LoadReject(i)
     \/ \E k \in 1..Len(revokes) : RevokeThen(k)
     \/ \E k \in 1..Len(revokes) : RevokeCatch(k)
     \/ Tick
  /\ UNCHANGED others

Spec == Init /\ [][Next]_vars

\* ------------------------------------- the map and filter, on their own
\* A kept entry whose name is the empty string.
RawEmptyName == Cert("", "c5", "s5", "", "")

\* Raw lists as get_certificates_cached may resolve with: any order, entries
\* repeated, fields left out or empty.
RawLists == SeqsUpTo(RawCerts \cup {RawEmptyName}, MaxRaw)

InitNormalize ==
  /\ CertIdle
  /\ remote = <<>>
  /\ upd = NoUpd
  /\ CleanupIdle
  /\ \E raw \in RawLists : norm = [NoNorm EXCEPT !.raw = raw]

\* const validCerts = certs.map(...).filter(...)
ApplyNormalize ==
  /\ ~norm.done
  /\ norm' = [norm EXCEPT !.out = Normalize(norm.raw), !.done = TRUE]
  /\ UNCHANGED <<certVars, upd, cleanupVars>>

NextNormalize == ApplyNormalize

SpecNormalize == InitNormalize /\ [][NextNormalize]_vars

\* --------------------------------------------------------- the updater
\* checkForUpdates of the README, over the updater plugin's check, the dialog
\* plugin's ask, update.downloadAndInstall and the process plugin's relaunch.
\* event.data.contentLength is optional: <<>> when the Started event carries
\* none, <<n>> when it carries n.
NoLength == <<>>

ContentLengths == {NoLength, <<0>>, <<2 * MaxChunkLength>>}

ChunkLengths == 1..MaxChunkLength

Called(u, fn) == [u EXCEPT !.calls = Append(u.calls, fn)]

\* const update = await check();
CheckForUpdates ==
  /\ upd.pc = "idle"
  /\ upd' = [Called(upd, "check") EXCEPT !.pc = "checking"]
  /\ UNCHANGED <<certVars, norm, cleanupVars>>

\* check resolves; if (update) the dialog is asked.
CheckReturns(found) ==
  /\ upd.pc = "checking"
  /\ upd' = IF found
            THEN [Called(upd, "ask") EXCEPT !.pc = "asking", !.update = "yes"]
            ELSE [upd EXCEPT !.pc = "done", !.update = "no"]
  /\ UNCHANGED <<certVars, norm, cleanupVars>>

\* check rejects: checkForUpdates rejects with it.
CheckFails ==
  /\ upd.pc = "checking"
  /\ upd' = [upd EXCEPT !.pc = "failed"]
  /\ UNCHANGED <<certVars, norm, cleanupVars>>

DeclinedNever(answer) == FALSE

\* if (!(await ask(...))) return;
Declined(answer) == ~answer

\* ask resolves: return, or downloadAndInstall is called with the handler.
AskReturns(answer) ==
  /\ upd.pc = "asking"
  /\ upd' = IF Declined(answer)
            THEN [upd EXCEPT !.pc = "done", !.answer = "no"]
            ELSE [Called(upd, "downloadAndInstall") EXCEPT
                    !.pc = "downloading",
                    !.answer = IF answer THEN "yes" ELSE "no"]
  /\ UNCHANGED <<certVars, norm, cleanupVars>>

\* case "Started": contentLength = event.data.contentLength;
OnStarted(contentLength) ==
  /\ upd.pc = "downloading"
  /\ upd.stage = "none"
  /\ upd' = [upd EXCEPT !.stage = "started", !.contentLength = contentLength]
  /\ UNCHANGED <<certVars, norm, cleanupVars>>

ProgressLast(downloaded, chunkLength) == chunkLength

\* downloaded += event.data.chunkLength;
ProgressSum(downloaded, chunkLength) == downloaded + chunkLength

\* case "Progress"
OnProgress(chunkLength) ==
  /\ upd.pc = "downloading"
  /\ upd.stage = "started"
  /\ Len(upd.chunks) < MaxChunks
  /\ upd' = [upd EXCEPT !.downloaded = ProgressSum(upd.downloaded, chunkLength),
                        !.chunks = Append(upd.chunks, chunkLength)]
  /\ UNCHANGED <<certVars, norm, cleanupVars>>

\* case "Finished"
OnFinished ==
  /\ upd.pc = "downloading"
  /\ upd.stage = "started"
  /\ upd' = [upd EXCEPT !.stage = "finished"]
  /\ UNCHANGED <<certVars, norm, cleanupVars>>

\* downloadAndInstall resolves; await relaunch();
DownloadResolves ==
  /\ upd.pc = "downloading"
  /\ upd.stage = "finished"
  /\ upd' = [Called(upd, "relaunch") EXCEPT !.pc = "relaunching",
                                            !.installed = TRUE]
  /\ UNCHANGED <<certVars, norm, cleanupVars>>

\* downloadAndInstall rejects, at any point of the download or of the
\* installation: checkForUpdates rejects with it.
DownloadFails ==
  /\ upd.pc = "downloading"
  /\ upd' = [upd EXCEPT !.pc = "failed"]
  /\ UNCHANGED <<certVars, norm, cleanupVars>>

InitUpdate ==
  /\ CertIdle
  /\ remote = <<>>
  /\ norm = NoNorm
  /\ CleanupIdle
  /\ upd = NoUpd

NextUpdate ==
  \/ CheckForUpdates
  \/ \E found \in BOOLEAN : CheckReturns(found)
  \/ CheckFails
  \/ \E answer \in BOOLEAN : AskReturns(answer)
  \/ \E contentLength \in ContentLengths : OnStarted(contentLength)
  \/ \E chunkLength \in ChunkLengths : OnProgress(chunkLength)
  \/ OnFinished
  \/ DownloadResolves
  \/ DownloadFails

SpecUpdate == InitUpdate /\ [][NextUpdate]_vars

\* ------------------------------------------------------ the Cleanup page
\* Fixed texts of the page, in English.
TxtCleaning == "Cleaning up all data..."
TxtCleanupDone == "Cleanup finished!"
TxtRevoked == "Certificates revoked: "
TxtDeleted == "App IDs deleted: "
TxtErrors == "Errors: "
TxtCleanupFailed == "Cleanup failed: "

\* What cleanup_all may reject with.
CleanupErrMsgs == {MsgTimeout}

NewJob == [phase |-> "sent", attempts |-> 0, data |-> <<>>]

ResultAtStartKept(held) == held

\* setResult(null), before the invoke
ResultAtStart(held) == <<>>

\* performCleanup: the guard, window.confirm, then the closure runs up to the
\* awaited invoke of cleanup_all.
ClickCleanup(confirmed) ==
  /\ ~cleanupLoading
  /\ IF confirmed
     THEN /\ cleanupLoading' = TRUE
          /\ result' = ResultAtStart(result)
          /\ job' = Append(job, NewJob)
          /\ cleanupToast' = [kind |-> "cleaning", text |-> <<TxtCleaning>>]
     ELSE UNCHANGED <<cleanupLoading, result, job, cleanupToast>>
  /\ UNCHANGED <<certVars, norm, upd, run, appIds>>

ResultHeldNoErrors(cleanupResult) == [cleanupResult EXCEPT !.errors = <<>>]

\* setResult(cleanupResult)
ResultHeld(cleanupResult) == cleanupResult

\* The success text of toast.promise.
SuccessText(r) ==
  LET successMsg ==
        <<TxtCleanupDone, NL, TxtRevoked, ToString(r.certificatesRevoked), NL,
          TxtDeleted, ToString(r.appIdsDeleted)>>
  IN IF Len(r.errors) > 0
     THEN successMsg \o <<NL, TxtErrors, ToString(Len(r.errors))>>
     ELSE successMsg

\* The awaited invoke resolves: setResult, setLoading(false), success toast.
CleanupResolve(j) ==
  /\ job[j].phase = "resolved"
  /\ result' = <<ResultHeld(job[j].data)>>
  /\ cleanupLoading' = FALSE
  /\ cleanupToast' = [kind |-> "cleanupOk", text |-> SuccessText(job[j].data)]
  /\ job' = RemoveAt(job, j)
  /\ UNCHANGED <<certVars, norm, upd, run, appIds>>

\* The awaited invoke rejects: the closure is left at line 29, the two
\* setters after it do not run; error toast.
CleanupReject(j) ==
  /\ job[j].phase = "rejected"
  /\ cleanupToast' = [kind |-> "cleanupErr",
                      text |-> <<TxtCleanupFailed>> \o job[j].data]
  /\ job' = RemoveAt(job, j)
  /\ UNCHANGED <<cleanupLoading, result>>
  /\ UNCHANGED <<certVars, norm, upd, run, appIds>>

\* ------------------------------------------------ the cleanup_all command
\* The state of the Certificates page and of its invocations.
pageVars == <<frontend, loads, revokes, now>>

SetJob(j, rec) == [job EXCEPT ![j] = rec]

\* cleanup_all cannot reach the authority: it rejects, nothing was attempted.
CleanupUnreachable(j, msg) ==
  /\ job[j].phase = "sent"
  /\ job' = SetJob(j, [job[j] EXCEPT !.phase = "rejected", !.data = msg])
  /\ UNCHANGED <<certVars, norm, upd, cleanupLoading, result, cleanupToast,
                 run, appIds>>

\* cleanup_all reaches the authority and lists what is to be removed.
CleanupStart(j) ==
  /\ job[j].phase = "sent"
  /\ job' = SetJob(j, [job[j] EXCEPT !.phase = "running"])
  /\ run' = [certs |-> remote, apps |-> appIds, certOk |-> <<>>,
             appOk |-> <<>>]
  /\ UNCHANGED <<certVars, norm, upd, cleanupLoading, result, cleanupToast,
                 appIds>>

\* The next certificate is attempted: revoked at the authority, or not.
CleanupRevokeItem(j, ok) ==
  /\ job[j].phase = "running"
  /\ Len(run.certOk) < Len(run.certs)
  /\ run' = [run EXCEPT !.certOk = Append(run.certOk, ok)]
  /\ job' = SetJob(j, [job[j] EXCEPT !.attempts = job[j].attempts + 1])
  /\ remote' = IF ok
               THEN WithoutSerial(remote,
                      run.certs[Len(run.certOk) + 1].serialNumber)
               ELSE remote
  /\ UNCHANGED <<pageVars, cache, needFetch, norm, upd, cleanupLoading,
                 result, cleanupToast, appIds>>

\* The next App ID is attempted, after the certificates: deleted, or not.
CleanupDeleteItem(j, ok) ==
  /\ job[j].phase = "running"
  /\ Len(run.certOk) = Len(run.certs)
  /\ Len(run.appOk) < Len(run.apps)
  /\ run' = [run EXCEPT !.appOk = Append(run.appOk, ok)]
  /\ job' = SetJob(j, [job[j] EXCEPT !.attempts = job[j].attempts + 1])
  /\ appIds' = IF ok
               THEN LET Other(a) == a # run.apps[Len(run.appOk) + 1]
                    IN SelectSeq(appIds, Other)
               ELSE appIds
  /\ UNCHANGED <<certVars, norm, upd, cleanupLoading, result, cleanupToast>>

\* The failure descriptions of the attempts that failed, in order.
RECURSIVE Failures(_, _, _)
Failures(kind, items, oks) ==
  IF oks = <<>> THEN <<>>
  ELSE (IF Head(oks) THEN <<>> ELSE <<kind \o ToString(Len(items) - Len(oks) + 1)>>)
       \o Failures(kind, items, Tail(oks))

RECURSIVE Successes(_)
Successes(oks) ==
  IF oks = <<>> THEN 0
  ELSE (IF Head(oks) THEN 1 ELSE 0) + Successes(Tail(oks))

\* The outcomes folded into the CleanupResult.
CleanupFold(r) ==
  [certificatesRevoked |-> Successes(r.certOk),
   appIdsDeleted |-> Successes(r.appOk),
   errors |-> Failures("revoke failed: certificate ", r.certs, r.certOk)
              \o Failures("delete failed: App ID ", r.apps, r.appOk)]

\* On return the certificate cache is invalidated.
CacheAfterCleanup(c) == NoCache

\* Every sub-item was attempted: cleanup_all resolves with the summary.
CleanupFinish(j) ==
  /\ job[j].phase = "running"
  /\ Len(run.certOk) = Len(run.certs)
  /\ Len(run.appOk) = Len(run.apps)
  /\ job' = SetJob(j, [job[j] EXCEPT !.phase = "resolved",
                                     !.data = CleanupFold(run)])
  /\ cache' = CacheAfterCleanup(cache)
  /\ needFetch' = TRUE
  /\ UNCHANGED <<pageVars, remote, norm, upd, cleanupLoading, result,
                 cleanupToast, run, appIds>>

\* Distinct, complete certificates and App IDs for a cleanup to work on.
CertN(i) ==
  Cert("Dev", "c" \o ToString(i), "s" \o ToString(i), "mac", "id")

InitCleanup ==
  /\ CertIdle
  /\ norm = NoNorm
  /\ upd = NoUpd
  /\ cleanupLoading = FALSE
  /\ result = <<>>
  /\ cleanupToast = NoToast
  /\ job = <<>>
  /\ run = NoRun
  /\ \E n \in 0..MaxCleanupCerts : remote = [i \in 1..n |-> CertN(i)]
  /\ \E m \in 0..MaxAppIds : appIds = [i \in 1..m |-> "app" \o ToString(i)]

NextCleanup ==
  \/ \E confirmed \in BOOLEAN : ClickCleanup(confirmed)
  \/ \E j \in 1..Len(job), msg \in CleanupErrMsgs : CleanupUnreachable(j, msg)
  \/ \E j \in 1..Len(job) : CleanupStart(j)
  \/ \E j \in 1..Len(job), ok \in BOOLEAN : CleanupRevokeItem(j, ok)
  \/ \E j \in 1..Len(job), ok \in BOOLEAN : CleanupDeleteItem(j, ok)
  \/ \E j \in 1..Len(job) : CleanupFinish(j)
  \/ \E j \in 1..Len(job) : CleanupResolve(j)
  \/ \E j \in 1..Len(job) : CleanupReject(j)

SpecCleanup == InitCleanup /\ [][NextCleanup]_vars

\* ------------------------- the Cleanup page beside the Certificates page
\* Loads of the certificate list, without failures, revokes or the clock,
\* interleaved with cleanups.
InitCleanupCerts ==
  /\ CertIdle
  /\ norm = NoNorm
  /\ upd = NoUpd
  /\ cleanupLoading = FALSE
  /\ result = <<>>
  /\ cleanupToast = NoToast
  /\ job = <<>>
  /\ run = NoRun
  /\ remote \in AuthorityLists
  /\ \E m \in 0..MaxAppIds : appIds = [i \in 1..m |-> "app" \o ToString(i)]

NextCleanupCerts ==
  \/ Mount /\ UNCHANGED others
  \/ Refresh /\ UNCHANGED others
  \/ \E i \in 1..Len(loads) : BackendGet(i) /\ UNCHANGED others
  \/ \E i \in 1..Len(loads) : RemoteListOk(i) /\ UNCHANGED others
  \/ \E i \in 1..Len(loads) : LoadResolve(i) /\ UNCHANGED others
  \/ \E confirmed \in BOOLEAN : ClickCleanup(confirmed)
  \/ \E j \in 1..Len(job), msg \in CleanupErrMsgs : CleanupUnreachable(j, msg)
  \/ \E j \in 1..Len(job) : CleanupStart(j)
  \/ \E j \in 1..Len(job), ok \in BOOLEAN : CleanupRevokeItem(j, ok)
  \/ \E j \in 1..Len(job), ok \in BOOLEAN : CleanupDeleteItem(j, ok)
  \/ \E j \in 1..Len(job) : CleanupFinish(j)
  \/ \E j \in 1..Len(job) : CleanupResolve(j)
  \/ \E j \in 1..Len(job) : CleanupReject(j)

SpecCleanupCerts == InitCleanupCerts /\ [][NextCleanupCerts]_vars

\* ----------------------------------------------------------------- claims
Fetching == {i \in 1..Len(loads) : loads[i].phase = "fetching"}

\* The step in which load i is settled on the page as a failure.
LoadRejectStep(i) == loads[i].phase = "rejected" /\ loads' = RemoveAt(loads, i)

\* The step in which revoke k, in the given phase, is settled on the page.
RevokeSettleStep(k, phase) ==
  revokes[k].phase = phase /\ revokes' = RemoveAt(revokes, k)

\* The step in which the backend answers or forwards load i.
BackendGetStep(i) ==
  /\ Len(loads') = Len(loads)
  /\ loads[i].phase = "sent"
  /\ loads'[i].phase # "sent"

\* C1: at most one invocation of get_certificates_cached, and so at most one
\* remote list call, is outstanding in every reachable state, however the
\* mount load, Refresh and the reload after a revoke interleave.
C1_SingleFlight == Len(loads) <= 1 /\ Cardinality(Fetching) <= 1

\* A call arrived while the remote list call was outstanding.
C1_Witness == lastCall.busy /\ Len(loads) = 1 /\ Fetching = {1}

\* C2 as stated: a call that arrives while a fetch is in flight invokes
\* nothing and awaits that fetch, to receive its outcome.
C2_ConcurrentCallerAwaits ==
  lastCall.busy => (lastCall.awaits /\ ~lastCall.issued)

\* C2 as amended: a call that arrives while a fetch is in flight invokes
\* nothing and awaits nothing: it returns at once, and the fetch in flight
\* stays the only one.
C2_ConcurrentCallerReturns ==
  lastCall.busy => (~lastCall.awaits /\ ~lastCall.issued /\ Len(loads) <= 1)

\* A call arrived mid-fetch and returned, the fetch still outstanding.
C2_Witness == lastCall.busy /\ ~lastCall.awaits /\ Len(loads) = 1

\* C3 as stated: in the step in which a successful revoke settles on the
\* page, a reload is issued: a new invocation of get_certificates_cached.
C3_ReloadAfterRevoke ==
  [][\A k \in 1..Len(revokes) :
       RevokeSettleStep(k, "ok") => Len(loads') = Len(loads) + 1]_vars

\* C4 as stated, in its weakest reading: once a revoke has succeeded and
\* until a remote list call has been issued after it, a load is answered by a
\* remote fetch, or at least not from the cache with a list that differs from
\* the authority's (one that still holds a revoked certificate).
C4_FetchAfterRevoke ==
  [][\A i \in 1..Len(loads) :
       (BackendGetStep(i) /\ needFetch) =>
         (loads'[i].src = "remote" \/ loads'[i].data = remote)]_vars

\* C5: no entry of the held list has an empty or missing certificateId or
\* serialNumber, in every reachable state.
C5_NoIncompleteEntry ==
  \A i \in 1..Len(certificates) :
    /\ ~Falsy(certificates[i].certificateId)
    /\ ~Falsy(certificates[i].serialNumber)

\* The held list came from a raw list that had an incomplete entry.
C5_Witness ==
  /\ certificates # <<>>
  /\ cache.valid
  /\ certificates = Normalize(cache.list)
  /\ Len(cache.list) > Len(certificates)

C7_RefreshBypassesCache ==
  \A i \in 1..Len(loads) :
    (loads[i].via = "refresh" /\ loads[i].phase # "sent") =>
      loads[i].src = "remote"

\* C8: a failing revoke changes neither the held list nor the cache nor the
\* authority's list, starts no load, and its error is shown.
C8_RevokeFailure ==
  [][\A k \in 1..Len(revokes) :
       /\ (Len(revokes') = Len(revokes) /\ revokes[k].phase = "sent"
           /\ revokes'[k].phase = "err")
            => UNCHANGED <<certificates, cache, remote, loads>>
       /\ RevokeSettleStep(k, "err")
            => /\ UNCHANGED <<certificates, cache, remote, loads, loadingRef>>
               /\ toast'.kind = "revokeErr"
               /\ Includes(toast'.text, revokes[k].msg)]_vars

\* A failed revoke was reported while a list is held.
C8_Witness == toast.kind = "revokeErr" /\ certificates # <<>>

\* C9: a failing fetch leaves the cache as it is, and when it settles on the
\* page the held list is unchanged and the error, with its message, is shown.
C9_LoadFailure ==
  [][\A i \in 1..Len(loads) :
       /\ (Len(loads') = Len(loads) /\ loads[i].phase = "fetching"
           /\ loads'[i].phase = "rejected") => UNCHANGED <<certificates, cache>>
       /\ LoadRejectStep(i) =>
            /\ certificates' = certificates
            /\ UNCHANGED cache
            /\ toast'.kind = "loadErr"
            /\ Includes(toast'.text, loads[i].data)]_vars

\* A failed load was reported while a list loaded earlier is held.
C9_Witness == toast.kind = "loadErr" /\ certificates # <<>>

\* C10: a fetch failure whose message contains the machine identifier marker
\* is shown as the detailed error: the original message unchanged and the
\* four remediation steps.
C10_ParseFieldError ==
  [][\A i \in 1..Len(loads) :
       (LoadRejectStep(i) /\ (\/ Includes(loads[i].data, MarkMachineId)
                              \/ Includes(loads[i].data, MarkMachineld))) =>
         /\ Includes(toast'.text, loads[i].data)
         /\ \A step \in {Step1, Step2, Step3, Step4} :
              Includes(toast'.text, <<step>>)]_vars

\* The detailed error for a machineId failure is on screen.
C10_Witness ==
  /\ toast.kind = "loadErr"
  /\ Includes(toast.text, MsgFailedMachineId)
  /\ Includes(toast.text, <<Step4>>)

\* C11 as stated: a fetch failure whose message names no machine identifier
\* field is shown with its raw message behind the plain failure prefix, and
\* the remediation steps are not shown.
C11_OtherFailureRaw ==
  [][\A i \in 1..Len(loads) :
       (LoadRejectStep(i) /\ ~Includes(loads[i].data, MarkMachineId)
                          /\ ~Includes(loads[i].data, MarkMachineld)) =>
         /\ toast'.text = <<TxtLoadFailed>> \o loads[i].data
         /\ \A step \in {Step1, Step2, Step3, Step4} :
              ~Includes(toast'.text, <<step>>)]_vars

\* C19: the load guard flag is true exactly while an invocation of
\* get_certificates_cached is outstanding: no fetch is outstanding with the
\* flag false, and the flag is false once every load has settled, whether it
\* resolved, failed, or failed and was rethrown as the detailed error.
C19_GuardFlag == loadingRef <=> Len(loads) > 0

\* A load failed, was rethrown as the detailed error and settled; the flag is
\* clear and nothing is outstanding.
C19_Witness ==
  /\ toast.kind = "loadErr"
  /\ Includes(toast.text, <<Step1>>)
  /\ ~loadingRef
  /\ loads = <<>>

\* The positions of a raw list whose entry has a non-empty certificateId and a
\* non-empty serialNumber.
KeptPositions(raw) ==
  {i \in 1..Len(raw) : ~Falsy(raw[i].certificateId)
                       /\ ~Falsy(raw[i].serialNumber)}

\* The j-th kept position, counted from the front of the raw list.
KeptAt(raw, j) ==
  CHOOSE i \in KeptPositions(raw) :
    Cardinality({k \in KeptPositions(raw) : k <= i}) = j

\* C17: the list computed from a raw list holds exactly the raw entries with a
\* non-empty certificateId and a non-empty serialNumber, one per such raw
\* entry and in the order received (repeated entries stay repeated); a missing
\* or empty name is replaced by the placeholder Unknown, and every other field
\* of a kept entry is the raw one (a field left out is the empty string).
C17_NormalizeExact ==
  norm.done =>
    /\ Len(norm.out) = Cardinality(KeptPositions(norm.raw))
    /\ \A j \in 1..Len(norm.out) :
         LET r == norm.raw[KeptAt(norm.raw, j)]
             o == norm.out[j]
         IN /\ o.certificateId = r.certificateId
            /\ o.serialNumber = r.serialNumber
            /\ o.name = (IF r.name \in {Undefined, ""} THEN "Unknown"
                         ELSE r.name)
            /\ o.machineName = (IF r.machineName = Undefined THEN ""
                                ELSE r.machineName)
            /\ o.machineId = (IF r.machineId = Undefined THEN ""
                              ELSE r.machineId)

\* A raw list with a repeated kept entry, an incomplete entry between kept
\* ones and a kept entry without a name has been normalized.
C17_Witness ==
  /\ norm.done
  /\ norm.raw = <<RawB, RawNoId, RawB>>
  /\ Len(norm.out) = 2
  /\ norm.out[1].name = "Unknown"

\* The order in which checkForUpdates may call the plugins.
UpdateOrder == <<"check", "ask", "downloadAndInstall", "relaunch">>

\* C15: the plugins are called in the order check, ask, downloadAndInstall,
\* relaunch, each at most once; relaunch has been called only if check
\* returned an update, the user confirmed and downloadAndInstall resolved;
\* once check returned no update or the user declined, neither
\* downloadAndInstall nor relaunch has been called.
C15_UpdateOrder ==
  /\ Len(upd.calls) <= Len(UpdateOrder)
  /\ upd.calls = SubSeq(UpdateOrder, 1, Len(upd.calls))
  /\ (Len(upd.calls) = 4) =>
       (upd.update = "yes" /\ upd.answer = "yes" /\ upd.installed)
  /\ (upd.update = "no" \/ upd.answer = "no") => Len(upd.calls) <= 2
  /\ upd.pc = "failed" => Len(upd.calls) <= 3

\* The update was found, confirmed and installed, and relaunch was called.
C15_Witness == upd.pc = "relaunching" /\ Len(upd.calls) = 4
               /\ Len(upd.chunks) > 0

RECURSIVE SumSeq(_)
SumSeq(q) == IF q = <<>> THEN 0 ELSE q[1] + SumSeq(Tail(q))

\* C16: in a download whose Started event carried no contentLength, the
\* handler keeps the missing length as it is, computes nothing from it, and
\* after every Progress event the downloaded counter is the sum of the chunk
\* lengths received so far; the events are all accepted up to Finished.
C16_UnknownLength ==
  (upd.stage # "none" /\ upd.contentLength = NoLength) =>
    /\ upd.downloaded \in Nat
    /\ upd.downloaded = SumSeq(upd.chunks)

\* Started came without a contentLength, MaxChunks Progress events followed,
\* then Finished.
C16_Witness ==
  /\ upd.stage = "finished"
  /\ upd.contentLength = NoLength
  /\ Len(upd.chunks) = MaxChunks
  /\ upd.downloaded > MaxChunks

\* The step in which cleanup invocation j, in the given phase, is settled on
\* the page.
CleanupSettleStep(j, phase) ==
  job[j].phase = phase /\ job' = RemoveAt(job, j)

\* C12: when cleanup_all resolves, also with a non-empty errors list, the page
\* reports success and holds the result cleanup_all resolved with: the same
\* counts and the complete error list; when cleanup_all rejects, the page
\* reports one error, holding the rejection message, and holds no result, the
\* result of an earlier run included.
C12_TotalAndPartial ==
  [][\A j \in 1..Len(job) :
       /\ CleanupSettleStep(j, "resolved") =>
            /\ result' = <<job[j].data>>
            /\ cleanupToast'.kind = "cleanupOk"
            /\ Len(job[j].data.errors) > 0 =>
                 Includes(cleanupToast'.text,
                          <<TxtErrors, ToString(Len(job[j].data.errors))>>)
       /\ CleanupSettleStep(j, "rejected") =>
            /\ result' = <<>>
            /\ cleanupToast'.kind = "cleanupErr"
            /\ cleanupToast'.text = <<TxtCleanupFailed>> \o job[j].data]_vars

\* A run that was partly successful was followed by a run that failed
\* outright: the error is shown and no result is held.
C12_Witness ==
  /\ cleanupToast.kind = "cleanupErr"
  /\ result = <<>>
  /\ job = <<>>
  /\ \E i \in 1..Len(run.certOk) : run.certOk[i]
  /\ \E i \in 1..Len(run.certOk) : ~run.certOk[i]

C18_GuardReleased == job = <<>> => ~cleanupLoading

\* The certificates the latest cleanup revoked.
RevokedByRun == {run.certs[k] : k \in {i \in 1..Len(run.certOk) : run.certOk[i]}}

\* C14 as stated: once a cleanup has returned, the next invocation of
\* get_certificates_cached is answered by a remote list call; it is not
\* answered from the cache with a list that still holds a certificate the
\* cleanup revoked.
C14_FetchAfterCleanup ==
  [][\A i \in 1..Len(loads) :
       (BackendGetStep(i) /\ needFetch) =>
         \/ loads'[i].src = "remote"
         \/ \A k \in 1..Len(loads'[i].data) :
              loads'[i].data[k] \notin RevokedByRun]_vars

====
